---- MODULE Spec2Model ----
(***************************************************************************)
(* excel-mcp: the tool dispatcher of src/server.py (handle_call_tool) over *)
(* one backing spreadsheet/CSV file, with its startup validation (main,    *)
(* validate_file) and its file adapter (read_file, write_file).            *)
(*                                                                         *)
(* A table on disk is a column list and a row list.  A DataFrame in memory *)
(* carries, besides, one index label per row: read_file gives a fresh      *)
(* RangeIndex 0..n-1 and write_file drops the labels (index=False).  Cell  *)
(* values are opaque: the pandas codecs are taken to hand back the cells   *)
(* they were given.                                                        *)
(***************************************************************************)
EXTENDS Integers, Sequences, FiniteSets, TLC

\* ------------------------------------------------------------------ bounds
MaxRows == 3
MaxPairs == 2

\* ------------------------------------------------------------ small helpers
Range(s) == {s[i] : i \in DOMAIN s}

Last(s) == s[Len(s)]

SeqsUpTo(S, n) == UNION {[1..k -> S] : k \in 0..n}

\* The positions of s whose element satisfies Keep, as a subsequence of s.
RECURSIVE Filter(_, _)
Filter(s, keep) ==
    IF s = <<>> THEN <<>>
    ELSE IF 1 \in keep
         THEN <<s[1]>> \o Filter(Tail(s), {i - 1 : i \in keep \ {1}})
         ELSE Filter(Tail(s), {i - 1 : i \in keep \ {1}})

\* ------------------------------------------------------------------- paths
\* A path is its directory and its file name split at the dots.
Cwd == <<"/", "srv">>

RelPath(parts) == [dir |-> <<"data">>, parts |-> parts]

AbsPath(parts) == [dir |-> <<"/", "srv", "data">>, parts |-> parts]

\* parse_arguments: --file-path, default "data/example.xls".
DefaultArgPath == RelPath(<<"example", "xls">>)

ArgPaths ==
    { DefaultArgPath,
      AbsPath(<<"people", "csv">>),
      RelPath(<<"Report", "XLSX">>),
      RelPath(<<"notes", "txt">>),
      RelPath(<<"README">>),
      RelPath(<<"people", "csv", "bak">>) }

\* os.path.abspath
abspath(p) == IF p.dir[1] = "/" THEN p ELSE [p EXCEPT !.dir = Cwd \o p.dir]

\* str.lower on the file-name pieces the model uses.
lower(s) ==
    CASE s = "XLSX" -> "xlsx"
      [] s = "Report" -> "report"
      [] s = "README" -> "readme"
      [] OTHER -> s

\* file_path.split('.')[-1].lower()
file_ext_of(p) == lower(Last(p.parts))

\* ------------------------------------------------------------------ tables
Values == {1, 2}

ColumnLists == { <<"id", "name">>, <<"custom_id", "name">> }

RowsOver(cols) == [Range(cols) -> Values]

\* The content of a path: absent, or a table (a zero-byte file has no columns).
Absent == [exists |-> FALSE, cols |-> <<>>, rows |-> <<>>]

Truncated == [exists |-> TRUE, cols |-> <<>>, rows |-> <<>>]

FileOf(cols, rows) == [exists |-> TRUE, cols |-> cols, rows |-> rows]

Tables == UNION { {FileOf(cols, rows) : rows \in SeqsUpTo(RowsOver(cols), MaxRows)} :
                  cols \in ColumnLists }

\* SAMPLE_DATA of the tests, cut to the model's columns and values.
SampleTable ==
    FileOf(<<"id", "name">>,
           << [id |-> 1, name |-> 1], [id |-> 2, name |-> 2], [id |-> 1, name |-> 2] >>)

\* A DataFrame: columns, index labels and rows (labels and rows in parallel).
DataFrame(cols, index, rows) == [cols |-> cols, index |-> index, rows |-> rows]

NoFrame == DataFrame(<<>>, <<>>, <<>>)

RangeIndex(n) == [i \in 1..n |-> i - 1]


\* -------------------------------------------------------------- exceptions
\* An exception: its class, str(e) as a template and the name the template holds.
Exc(type, msg, name) == [type |-> type, msg |-> msg, name |-> name]

NoExc == Exc("", "", "")

\* An except clause that catches ValueError alone.
OnlyValueErrors == {"ValueError"}

\* The classes `except Exception` catches: every class the handler's calls raise.
ExceptionClasses ==
    {"ValueError", "KeyError", "SyntaxError", "UndefinedVariableError",
     "FileNotFoundError", "EmptyDataError", "OSError"}

\* ------------------------------------------------------------ file adapter
\* What a read gives: a DataFrame, or an exception.
ReadOk(frame) == [raised |-> FALSE, exc |-> NoExc, df |-> frame]

ReadRaise(e) == [raised |-> TRUE, exc |-> e, df |-> NoFrame]

\* pd.read_csv / pd.read_excel on a readable file: the table under a fresh RangeIndex.
Load(content) ==
    IF ~content.exists THEN ReadRaise(Exc("FileNotFoundError", "No such file or directory", ""))
    ELSE IF content.cols = <<>> THEN ReadRaise(Exc("EmptyDataError", "No columns to parse from file", ""))
    ELSE ReadOk(DataFrame(content.cols, RangeIndex(Len(content.rows)), content.rows))

read_excel(content) == Load(content)

read_csv(content) == Load(content)

\* read_file: the codec by extension; an exception is logged and re-raised.
\* io_error: the read fails although the file is there (permissions, a lock).
read_file(file_path, content, io_error) ==
    IF io_error THEN ReadRaise(Exc("OSError", "Permission denied", ""))
    ELSE IF file_ext_of(file_path) \in {"xls", "xlsx"} THEN read_excel(content)
    ELSE read_csv(content)

\* df.to_csv / df.to_excel with index=False: columns and rows, no index labels.
WithIndexColumn(frame) ==
    FileOf(<<"Unnamed: 0">> \o frame.cols,
           [i \in DOMAIN frame.rows |->
               [c \in Range(frame.cols) \cup {"Unnamed: 0"} |->
                   IF c = "Unnamed: 0" THEN frame.index[i] ELSE frame.rows[i][c]]])

Persist(frame) == FileOf(frame.cols, frame.rows)

to_excel(frame) == Persist(frame)

to_csv(frame) == Persist(frame)

\* write_file on success: the codec by extension.
write_file(frame, file_path) ==
    IF file_ext_of(file_path) \in {"xls", "xlsx"} THEN to_excel(frame) ELSE to_csv(frame)

\* What a failed write can leave behind: the old file, or a truncated one.
WriteLeftovers(content) == {content, Truncated}

\* A validation that compares the extension as written, not lower-cased.
validate_file_as_written(file_path, content) ==
    IF ~content.exists THEN <<>>
    ELSE IF Last(file_path.parts) \notin {"xls", "xlsx", "csv"} THEN <<>>
    ELSE <<Last(file_path.parts)>>

\* ----------------------------------------------------------- validate_file
\* Optional[str]: <<>> is None, <<ext>> the format.
validate_file(file_path, content) ==
    IF ~content.exists THEN <<>>
    ELSE IF file_ext_of(file_path) \notin {"xls", "xlsx", "csv"} THEN <<>>
    ELSE <<file_ext_of(file_path)>>

\* ------------------------------------------------------------------ results
\* The text of a TextContent: a prefix, a message template and what fills it.
Text(prefix, msg, index, name, rows, cols) ==
    [prefix |-> prefix, msg |-> msg, index |-> index, name |-> name,
     rows |-> rows, cols |-> cols]

ErrorText(msg, index, name) == Text("Error: ", msg, index, name, <<>>, <<>>)

TextContent(text) == [type |-> "text", text |-> text]

IsFailure(content) == content.text.prefix = "Error: "

\* --------------------------------------------------------- DataFrame calls
\* An emptiness test that never fires.
empty_never(frame) == FALSE

\* df.empty
empty(frame) == Len(frame.rows) = 0 \/ Len(frame.cols) = 0

\* An assignment that sets the column in every row.
loc_set_column(frame, index, column, value) ==
    [frame EXCEPT !.rows = [i \in DOMAIN frame.rows |-> [frame.rows[i] EXCEPT ![column] = value]]]

\* df.loc[index, column] = value
loc_set(frame, index, column, value) ==
    [frame EXCEPT !.rows =
        [i \in DOMAIN frame.rows |->
            IF frame.index[i] = index
            THEN [frame.rows[i] EXCEPT ![column] = value]
            ELSE frame.rows[i]]]

\* The frame cut down to the positions in keep, labels kept.
Take(frame, keep) ==
    DataFrame(frame.cols, Filter(frame.index, keep), Filter(frame.rows, keep))

\* A drop whose result is thrown away: the frame stays as it was.
drop_discarded(frame, index) == frame

\* A drop that removes the row after the one asked for.
drop_next(frame, index) ==
    Take(frame, {i \in DOMAIN frame.rows : frame.index[i] # index + 1})

\* df.drop(index)
drop(frame, index) ==
    Take(frame, {i \in DOMAIN frame.rows : frame.index[i] # index})

\* A filter that removes the first matching row only.
filter_first(frame, id_column, index) ==
    LET hits == {i \in DOMAIN frame.rows : frame.rows[i][id_column] = index}
        first == CHOOSE i \in hits : \A j \in hits : i <= j
    IN Take(frame, DOMAIN frame.rows \ (IF hits = {} THEN {} ELSE {first}))

\* df[df[id_column] != index]
filter_ne(frame, id_column, index) ==
    Take(frame, {i \in DOMAIN frame.rows : frame.rows[i][id_column] # index})

\* df[id_column].values
column_values(frame, id_column) == {frame.rows[i][id_column] : i \in DOMAIN frame.rows}

\* A query expression: well-formed or not, and `col op val` when it is.
QueryExpr(ok, col, op, val) == [ok |-> ok, col |-> col, op |-> op, val |-> val]

\* A comparison that reads > as >=.
SatisfiesAtLeast(row, q) ==
    CASE q.op = "==" -> row[q.col] = q.val
      [] q.op = ">" -> row[q.col] >= q.val
      [] OTHER -> FALSE

\* Whether a row satisfies the expression.
Satisfies(row, q) ==
    CASE q.op = "==" -> row[q.col] = q.val
      [] q.op = ">" -> row[q.col] > q.val
      [] OTHER -> FALSE

\* df.query(expr)
df_query(frame, q) ==
    IF ~q.ok THEN ReadRaise(Exc("SyntaxError", "invalid syntax", ""))
    ELSE IF q.col \notin Range(frame.cols)
    THEN ReadRaise(Exc("UndefinedVariableError", "name {} is not defined", q.col))
    ELSE ReadOk(Take(frame, {i \in DOMAIN frame.rows : Satisfies(frame.rows[i], q)}))

\* --------------------------------------------------------------- arguments
\* dict | None: <<>> is None, <<d>> the dict d, a function on its keys.
EmptyDict == [k \in {} |-> 0]

Truthy(arguments) == Len(arguments) = 1 /\ DOMAIN arguments[1] # {}

HasKey(arguments, key) == Len(arguments) = 1 /\ key \in DOMAIN arguments[1]

\* arguments.get("id_column", "id")
IdColumnOf(arguments) ==
    IF HasKey(arguments, "id_column") THEN arguments[1]["id_column"] ELSE "id"


\* ------------------------------------------------------- handle_call_tool
\* Where the handler's body stands once it has read and worked in memory: it
\* returns a text, raises, or is about to call write_file(frame, FILE_PATH).
Return(text) == [kind |-> "return", text |-> text, exc |-> NoExc, df |-> NoFrame]

Raise(e) == [kind |-> "raise", text |-> Text("", "", 0, "", <<>>, <<>>), exc |-> e, df |-> NoFrame]

CallWrite(frame) ==
    [kind |-> "write", text |-> Text("", "", 0, "", <<>>, <<>>), exc |-> NoExc, df |-> frame]

KeyError(key) == Exc("KeyError", "'{}'", key)

\* A loop that skips the columns the table does not have and goes on to write.
RECURSIVE update_loop_skip(_, _, _)
update_loop_skip(frame, index, items) ==
    IF items = <<>> THEN CallWrite(frame)
    ELSE LET column == items[1][1]
             value == items[1][2]
         IN IF column \notin Range(frame.cols)
            THEN update_loop_skip(frame, index, Tail(items))
            ELSE update_loop_skip(loc_set(frame, index, column, value), index, Tail(items))

\* for column, value in data.items(): check the column, then set the cell.
RECURSIVE update_loop(_, _, _)
update_loop(frame, index, items) ==
    IF items = <<>> THEN CallWrite(frame)
    ELSE LET column == items[1][1]
             value == items[1][2]
         IN IF column \notin Range(frame.cols)
            THEN Return(ErrorText("Column {} not found", 0, column))
            ELSE update_loop(loc_set(frame, index, column, value), index, Tail(items))

\* An update that returns its success text without calling write_file.
update_item_unsaved(arguments, rd) ==
    LET out == IF rd.raised THEN Raise(rd.exc)
               ELSE IF ~HasKey(arguments, "index") THEN Raise(KeyError("index"))
               ELSE IF ~HasKey(arguments, "data") THEN Raise(KeyError("data"))
               ELSE IF arguments[1]["index"] \notin Range(rd.df.index)
               THEN Return(ErrorText("Index {} not found", arguments[1]["index"], ""))
               ELSE update_loop(rd.df, arguments[1]["index"], arguments[1]["data"])
    IN IF out.kind = "write"
       THEN Return(Text("", "Item updated successfully", 0, "", <<>>, <<>>))
       ELSE out

update_item(arguments, rd) ==
    IF rd.raised THEN Raise(rd.exc)
    ELSE IF ~HasKey(arguments, "index") THEN Raise(KeyError("index"))
    ELSE IF ~HasKey(arguments, "data") THEN Raise(KeyError("data"))
    ELSE LET index == arguments[1]["index"]
             data == arguments[1]["data"]
         IN IF index \notin Range(rd.df.index)
            THEN Return(ErrorText("Index {} not found", index, ""))
            ELSE update_loop(rd.df, index, data)

delete_item(arguments, rd) ==
    IF rd.raised THEN Raise(rd.exc)
    ELSE IF ~HasKey(arguments, "index") THEN Raise(KeyError("index"))
    ELSE LET index == arguments[1]["index"]
             id_column == IdColumnOf(arguments)
         IN IF empty(rd.df) THEN Return(ErrorText("Empty file", 0, ""))
            ELSE IF id_column # "id"
            THEN IF id_column \notin Range(rd.df.cols)
                 THEN Return(ErrorText("Column {} not found", 0, id_column))
                 ELSE IF index \notin column_values(rd.df, id_column)
                 THEN Return(ErrorText("Index {} not found", index, ""))
                 ELSE CallWrite(filter_ne(rd.df, id_column, index))
            ELSE IF index \notin Range(rd.df.index)
                 THEN Return(ErrorText("Index {} not found", index, ""))
                 ELSE CallWrite(drop(rd.df, index))

query(arguments, rd) ==
    IF rd.raised THEN Raise(rd.exc)
    ELSE IF ~HasKey(arguments, "query") THEN Raise(KeyError("query"))
    ELSE LET res == df_query(rd.df, arguments[1]["query"])
         IN IF res.raised THEN Raise(res.exc)
            ELSE Return(Text("", "{}", 0, "", res.df.rows, <<>>))

list_columns(rd) ==
    IF rd.raised THEN Raise(rd.exc)
    ELSE Return(Text("", "{}", 0, "", <<>>, rd.df.cols))

ToolNames == {"query", "update_item", "delete_item", "list_columns"}

\* The arguments check at the head of the try block.
MissingArguments(name, arguments) == ~Truthy(arguments) /\ name # "list_columns"

\* Whether the body gets to its read_file(FILE_PATH) call.
ReadsFile(name, arguments) == ~MissingArguments(name, arguments) /\ name \in ToolNames

\* The try block up to its return, its raise or its write_file call; rd is what
\* read_file gave.
Body(name, arguments, rd) ==
    IF MissingArguments(name, arguments) THEN Raise(Exc("ValueError", "Missing arguments", ""))
    ELSE IF name = "query" THEN query(arguments, rd)
    ELSE IF name = "update_item" THEN update_item(arguments, rd)
    ELSE IF name = "delete_item" THEN delete_item(arguments, rd)
    ELSE IF name = "list_columns" THEN list_columns(rd)
    ELSE Raise(Exc("ValueError", "Unknown tool: {}", name))

\* except Exception as e: return [TextContent(text=f"Error: {str(e)}")]
Caught(e) == e.type \in ExceptionClasses

ExceptText(e) == ErrorText(e.msg, 0, e.name)

\* The text returned after write_file came back.
SuccessText(name) ==
    IF name = "update_item" THEN Text("", "Item updated successfully", 0, "", <<>>, <<>>)
    ELSE Text("", "Item deleted successfully", 0, "", <<>>, <<>>)


\* ------------------------------------------------------------------- state
Procs == {1, 2}

VARIABLES
    argv,         \* the --file-path argument
    FILE_PATH,    \* the module global
    mainpc,       \* main: "start", "serving" or "exited"
    exit_status,  \* the status sys.exit was given
    fs,           \* the file system: a content for each path
    pc,           \* each call: "idle", "write" (about to call write_file), "done", "raised"
    tool,         \* each call's tool name
    args,         \* each call's arguments
    snap,         \* each call's DataFrame as read_file returned it
    df,           \* each call's DataFrame as the body left it
    result,       \* each call's returned list of contents
    log           \* each call's file-adapter calls, in order

vars == <<argv, FILE_PATH, mainpc, exit_status, fs, pc, tool, args, snap, df, result, log>>

FsPaths == {abspath(p) : p \in ArgPaths}

\* FILE_PATH before main assigns it: data/example.xls beside the module.
ModulePath == abspath(DefaultArgPath)

\* ------------------------------------------------------------ the inputs
IndexArgs == -1..MaxRows

IdColumnArgs == {"id", "name", "custom_id", "nope"}

DataColumns == {"id", "name", "nope"}

NewValues == {2}

\* data: column -> value pairs in the dict's order, no column twice.
DataArgs ==
    {d \in SeqsUpTo(DataColumns \X NewValues, MaxPairs) :
        \A i, j \in DOMAIN d : i # j => d[i][1] # d[j][1]}

QueryArgs ==
    { QueryExpr(FALSE, "", "", 0),
      QueryExpr(TRUE, "name", "==", 1),
      QueryExpr(TRUE, "name", ">", 1),
      QueryExpr(TRUE, "nope", "==", 1) }

\* Bags any tool may be called with: None, {}, and a dict of no use to it.
GenericBags == {<<>>, <<EmptyDict>>, <<[foo |-> 1]>>}

\* The bags a tool is called with: the generic ones, its own well-formed
\* ones, and its own with a required key left out.
BagsFor(name) ==
    GenericBags \cup
    CASE name = "query" -> {<<[query |-> q]>> : q \in QueryArgs}
      [] name = "update_item" ->
            {<<[index |-> i, data |-> d]>> : i \in IndexArgs, d \in DataArgs}
            \cup {<<[index |-> 0]>>, <<[data |-> <<>>]>>}
      [] name = "delete_item" ->
            {<<[index |-> i]>> : i \in IndexArgs}
            \cup {<<[index |-> i, id_column |-> c]>> : i \in IndexArgs, c \in IdColumnArgs}
            \cup {<<[id_column |-> "name"]>>}
      [] OTHER -> {<<[index |-> 0]>>}

CallNames == ToolNames \cup {"frobnicate", "Query"}

\* The tables a path may hold at startup: every table for the CSV path, the
\* sample for the others.
StartContents(p) ==
    IF abspath(p) = AbsPath(<<"people", "csv">>) THEN Tables \cup {Absent}
    ELSE {SampleTable, Absent}

Idle(f) == [p \in Procs |-> f]

Init ==
    /\ argv \in ArgPaths
    /\ FILE_PATH = ModulePath
    /\ mainpc = "start"
    /\ exit_status = 0
    /\ \E c \in StartContents(argv) :
          fs = [q \in FsPaths |-> IF q = abspath(argv) THEN c ELSE Absent]
    /\ pc = Idle("idle")
    /\ tool = Idle("")
    /\ args = Idle(<<>>)
    /\ snap = Idle(NoFrame)
    /\ df = Idle(NoFrame)
    /\ result = Idle(<<>>)
    /\ log = Idle(<<>>)

\* ----------------------------------------------------------------- actions
\* main: set FILE_PATH, validate it, exit 1 or serve.
Main ==
    /\ mainpc = "start"
    /\ FILE_PATH' = abspath(argv)
    /\ IF validate_file(FILE_PATH', fs[FILE_PATH']) = <<>>
       THEN mainpc' = "exited" /\ exit_status' = 1
       ELSE mainpc' = "serving" /\ exit_status' = exit_status
    /\ UNCHANGED <<argv, fs, pc, tool, args, snap, df, result, log>>

\* An entry that waits until no other call is in flight.
MayEnterAlone(p) == \A q \in Procs : pc[q] = "idle"

\* The handler's entry: a caller's call starts when it has none in flight;
\* nothing is taken or awaited that another call holds.
MayEnter(p) == pc[p] = "idle"

\* handle_call_tool from its entry to its return, or to its write_file call.
CallTool(p, name, arguments) ==
    /\ mainpc = "serving"
    /\ MayEnter(p)
    /\ \E io_error \in (IF ReadsFile(name, arguments) THEN BOOLEAN ELSE {FALSE}) :
          LET rd == read_file(FILE_PATH, fs[FILE_PATH], io_error)
              out == Body(name, arguments, rd)
          IN /\ tool' = [tool EXCEPT ![p] = name]
             /\ args' = [args EXCEPT ![p] = arguments]
             /\ log' = [log EXCEPT ![p] =
                           IF ~ReadsFile(name, arguments) THEN <<>>
                           ELSE IF rd.raised THEN <<"read_file raised">>
                           ELSE <<"read_file">>]
             /\ snap' = [snap EXCEPT ![p] =
                            IF ReadsFile(name, arguments) THEN rd.df ELSE NoFrame]
             /\ df' = [df EXCEPT ![p] = out.df]
             /\ pc' = [pc EXCEPT ![p] =
                          CASE out.kind = "write" -> "write"
                            [] out.kind = "return" -> "done"
                            [] OTHER -> IF Caught(out.exc) THEN "done" ELSE "raised"]
             /\ result' = [result EXCEPT ![p] =
                              CASE out.kind = "write" -> <<>>
                                [] out.kind = "return" -> <<TextContent(out.text)>>
                                [] OTHER -> IF Caught(out.exc)
                                            THEN <<TextContent(ExceptText(out.exc))>>
                                            ELSE <<>>]
    /\ UNCHANGED <<argv, FILE_PATH, mainpc, exit_status, fs>>

\* write_file(df, FILE_PATH) comes back; the handler returns its success text.
WriteDone(p) ==
    /\ pc[p] = "write"
    /\ fs' = [fs EXCEPT ![FILE_PATH] = write_file(df[p], FILE_PATH)]
    /\ log' = [log EXCEPT ![p] = Append(@, "write_file")]
    /\ pc' = [pc EXCEPT ![p] = "done"]
    /\ result' = [result EXCEPT ![p] = <<TextContent(SuccessText(tool[p]))>>]
    /\ UNCHANGED <<argv, FILE_PATH, mainpc, exit_status, tool, args, snap, df>>

\* write_file raises: the file is as the failed write left it, the exception
\* reaches the handler's except clause.
WriteRaises(p) ==
    /\ pc[p] = "write"
    /\ \E left \in WriteLeftovers(fs[FILE_PATH]) :
          fs' = [fs EXCEPT ![FILE_PATH] = left]
    /\ log' = [log EXCEPT ![p] = Append(@, "write_file raised")]
    /\ LET e == Exc("OSError", "No space left on device", "")
       IN IF Caught(e)
          THEN /\ pc' = [pc EXCEPT ![p] = "done"]
               /\ result' = [result EXCEPT ![p] = <<TextContent(ExceptText(e))>>]
          ELSE /\ pc' = [pc EXCEPT ![p] = "raised"]
               /\ result' = result
    /\ UNCHANGED <<argv, FILE_PATH, mainpc, exit_status, tool, args, snap, df>>

\* The caller takes the result; the call's locals are gone.
Deliver(p) ==
    /\ pc[p] = "done"
    /\ pc' = [pc EXCEPT ![p] = "idle"]
    /\ tool' = [tool EXCEPT ![p] = ""]
    /\ args' = [args EXCEPT ![p] = <<>>]
    /\ snap' = [snap EXCEPT ![p] = NoFrame]
    /\ df' = [df EXCEPT ![p] = NoFrame]
    /\ result' = [result EXCEPT ![p] = <<>>]
    /\ log' = [log EXCEPT ![p] = <<>>]
    /\ UNCHANGED <<argv, FILE_PATH, mainpc, exit_status, fs>>

\* One call at a time: the event loop runs each handler to its end.
Caller == 1

Next ==
    \/ Main
    \/ \E name \in CallNames : \E arguments \in BagsFor(name) : CallTool(Caller, name, arguments)
    \/ WriteDone(Caller)
    \/ WriteRaises(Caller)
    \/ Deliver(Caller)

Spec == Init /\ [][Next]_vars


\* Two calls in flight on the one file, as when two clients each run a server
\* on the same --file-path: read_file and write_file are separate file-system
\* operations and nothing is held between them.
ConcCalls ==
    {<<"update_item", <<[index |-> i, data |-> << <<"name", 2>> >>]>> >> : i \in 0..1}
    \cup {<<"delete_item", <<[index |-> i]>> >> : i \in 0..1}

NextConc ==
    \/ Main
    \/ \E p \in Procs : \E call \in ConcCalls : CallTool(p, call[1], call[2])
    \/ \E p \in Procs : WriteDone(p)
    \/ \E p \in Procs : WriteRaises(p)
    \/ \E p \in Procs : Deliver(p)

\* Started on the sample table (or on no file at all).
InitConc == Init /\ fs[abspath(argv)] \in {SampleTable, Absent}

SpecConc == InitConc /\ [][NextConc]_vars

\* ------------------------------------------------------- reading a state
\* The table a reload of the backing file gives.
Reload == Load(fs[FILE_PATH]).df

\* The call has returned / is of this tool / its read_file call came back.
Returned(p) == pc[p] = "done" /\ Len(result[p]) = 1

ReadCameBack(p) == Len(log[p]) >= 1 /\ log[p][1] = "read_file"

Wrote(p) == log[p] = <<"read_file", "write_file">>

WriteFailed(p) == log[p] = <<"read_file", "write_file raised">>

NoWrite(p) == log[p] = <<"read_file">>

Answer(p) == result[p][1].text

Says(p, msg) == Answer(p).prefix = "" /\ Answer(p).msg = msg

Fails(p, msg) == Answer(p).prefix = "Error: " /\ Answer(p).msg = msg

IndexArg(p) == args[p][1]["index"]

DataArg(p) == args[p][1]["data"]

\* The sequence s without its k-th element.
RemoveAt(s, k) == SubSeq(s, 1, k - 1) \o SubSeq(s, k + 1, Len(s))

\* A delete_item call in the default id-column mode whose index is a position
\* of the table it loaded.
PositionalDelete(p) ==
    /\ tool[p] = "delete_item"
    /\ HasKey(args[p], "index")
    /\ IdColumnOf(args[p]) = "id"
    /\ ReadCameBack(p)
    /\ IndexArg(p) \in Range(snap[p].index)

\* ---------------------------------------------------------------------- C1
\* C1 as stated: delete_item(i) on a position i of the loaded table succeeds,
\* and the reloaded table has len - 1 rows and no row at position-key i.
C1_AsStated ==
    (Returned(Caller) /\ PositionalDelete(Caller) /\ Wrote(Caller)) =>
        /\ Says(Caller, "Item deleted successfully")
        /\ Len(Reload.rows) = Len(snap[Caller].rows) - 1
        /\ IndexArg(Caller) \notin Range(Reload.index)

\* C1, amended: delete_item(i) on a position i of the loaded table gets to its
\* write_file call; when that comes back the call returns success, the frame it
\* wrote has len - 1 rows and no label i, and the reloaded table is the loaded
\* rows without the i-th, renumbered 0..len-2 (so position i is there again
\* unless i was the last position).
C1_DeleteReload ==
    PositionalDelete(Caller) =>
        LET i == IndexArg(Caller)
            n == Len(snap[Caller].rows)
        IN /\ pc[Caller] \in {"write", "done"}
           /\ ~NoWrite(Caller) \/ pc[Caller] = "write"
           /\ (Returned(Caller) /\ Wrote(Caller)) =>
                 /\ Says(Caller, "Item deleted successfully")
                 /\ Len(df[Caller].rows) = n - 1
                 /\ i \notin Range(df[Caller].index)
                 /\ Reload.rows = RemoveAt(snap[Caller].rows, i + 1)
                 /\ Reload.index = RangeIndex(n - 1)
                 /\ (i \in Range(Reload.index)) = (i < n - 1)
           /\ (Returned(Caller) /\ ~Wrote(Caller)) =>
                 WriteFailed(Caller) /\ Answer(Caller).prefix = "Error: "

\* A delete of position 0 of a three-row table has returned success, and the
\* reloaded table has a row at position 0 again.
C1_Witness ==
    /\ Returned(Caller) /\ PositionalDelete(Caller) /\ Wrote(Caller)
    /\ IndexArg(Caller) = 0
    /\ Len(snap[Caller].rows) = 3
    /\ Len(Reload.rows) = 2
    /\ 0 \in Range(Reload.index)


\* ---------------------------------------------------------------------- C2
\* An update_item call whose index is a position of the table it loaded.
UpdateAt(p) ==
    /\ tool[p] = "update_item"
    /\ HasKey(args[p], "index") /\ HasKey(args[p], "data")
    /\ ReadCameBack(p)
    /\ IndexArg(p) \in Range(snap[p].index)

DataColumnsOf(p) == {DataArg(p)[k][1] : k \in DOMAIN DataArg(p)}

\* The value data gives column c.
DataValue(p, c) == DataArg(p)[CHOOSE k \in DOMAIN DataArg(p) : DataArg(p)[k][1] = c][2]

\* C2: update_item(idx, data) on a position idx of the loaded table, every
\* column of data in the table, gets to its write_file call and calls it once;
\* when that comes back the call returns success, and the reloaded table has
\* the loaded columns and row count, data's values in row idx and every other
\* cell as loaded.
C2_UpdateReload ==
    (UpdateAt(Caller) /\ DataColumnsOf(Caller) \subseteq Range(snap[Caller].cols)) =>
        LET old == snap[Caller]
            idx == IndexArg(Caller)
        IN /\ pc[Caller] \in {"write", "done"}
           /\ Returned(Caller) => Wrote(Caller) \/ WriteFailed(Caller)
           /\ (Returned(Caller) /\ Wrote(Caller)) =>
                 /\ Says(Caller, "Item updated successfully")
                 /\ Reload.cols = old.cols
                 /\ Len(Reload.rows) = Len(old.rows)
                 /\ \A k \in DOMAIN old.rows : \A c \in Range(old.cols) :
                       Reload.rows[k][c] =
                          IF k = idx + 1 /\ c \in DataColumnsOf(Caller)
                          THEN DataValue(Caller, c)
                          ELSE old.rows[k][c]
           /\ (Returned(Caller) /\ WriteFailed(Caller)) => Answer(Caller).prefix = "Error: "

\* An update of one cell of a three-row table has returned success: the cell
\* holds the new value, and the same column of another row holds another.
C2_Witness ==
    /\ Returned(Caller) /\ UpdateAt(Caller) /\ Wrote(Caller)
    /\ IndexArg(Caller) = 1
    /\ DataArg(Caller) = << <<"name", 2>> >>
    /\ Len(snap[Caller].rows) = 3
    /\ snap[Caller].rows[2]["name"] = 1
    /\ Reload.rows[2]["name"] = 2
    /\ Reload.rows[1]["name"] = 1

\* ---------------------------------------------------------------------- C3
\* The first column of data, in the dict's order, that the table lacks.
FirstMissingColumn(p) ==
    LET bad == {k \in DOMAIN DataArg(p) : DataArg(p)[k][1] \notin Range(snap[p].cols)}
    IN DataArg(p)[CHOOSE k \in bad : \A j \in bad : k <= j][1]

\* C3: an update_item whose index is no position of the loaded table, or whose
\* data holds a column the table lacks (wherever it sits among the pairs),
\* returns a failure naming the index or the column, never calls write_file
\* and leaves the file as it was loaded.
C3_FailedUpdateNoWrite ==
    (/\ tool[Caller] = "update_item"
     /\ HasKey(args[Caller], "index") /\ HasKey(args[Caller], "data")
     /\ ReadCameBack(Caller)
     /\ \/ IndexArg(Caller) \notin Range(snap[Caller].index)
        \/ ~(DataColumnsOf(Caller) \subseteq Range(snap[Caller].cols))) =>
        /\ Returned(Caller)
        /\ NoWrite(Caller)
        /\ fs[FILE_PATH] = FileOf(snap[Caller].cols, snap[Caller].rows)
        /\ IF IndexArg(Caller) \notin Range(snap[Caller].index)
           THEN Fails(Caller, "Index {} not found") /\ Answer(Caller).index = IndexArg(Caller)
           ELSE Fails(Caller, "Column {} not found")
                /\ Answer(Caller).name = FirstMissingColumn(Caller)

\* An update whose second column is missing has failed after its first column
\* was set in memory, on a row whose cell it would have changed.
C3_Witness ==
    /\ Returned(Caller)
    /\ tool[Caller] = "update_item"
    /\ args[Caller] = <<[index |-> 0, data |-> << <<"name", 2>>, <<"nope", 2>> >>]>>
    /\ ReadCameBack(Caller)
    /\ Len(snap[Caller].rows) >= 1
    /\ snap[Caller].rows[1]["name"] = 1
    /\ Fails(Caller, "Column {} not found")
    /\ Reload.rows[1]["name"] = 1


\* ---------------------------------------------------------------------- C4
\* A delete_item call that gave an index and whose read_file call came back.
DeleteCall(p) ==
    /\ tool[p] = "delete_item"
    /\ HasKey(args[p], "index")
    /\ ReadCameBack(p)

\* The rows of the loaded table the call's index selects: the row at that
\* position in the default mode, the rows holding it in id_column otherwise.
Matches(p) ==
    IF IdColumnOf(args[p]) = "id"
    THEN {k \in DOMAIN snap[p].rows : k - 1 = IndexArg(p)}
    ELSE {k \in DOMAIN snap[p].rows : snap[p].rows[k][IdColumnOf(args[p])] = IndexArg(p)}

\* Why the delete must fail, "" when it must not: the table has no rows (before
\* any other check), the custom id_column is missing, or no row matches.
DeleteRefusal(p) ==
    IF Len(snap[p].rows) = 0 THEN "Empty file"
    ELSE IF IdColumnOf(args[p]) # "id" /\ IdColumnOf(args[p]) \notin Range(snap[p].cols)
    THEN "Column {} not found"
    ELSE IF Matches(p) = {} THEN "Index {} not found"
    ELSE ""

\* C4: a delete_item on a table of zero rows fails with "Empty file" whatever
\* the index and the id_column; with a custom id_column the table lacks it
\* fails naming the column; with no matching row it fails with a message
\* holding the index.  In each case write_file is never called and the file
\* stays as loaded.
C4_FailedDeleteNoWrite ==
    (DeleteCall(Caller) /\ DeleteRefusal(Caller) # "") =>
        /\ Returned(Caller)
        /\ NoWrite(Caller)
        /\ fs[FILE_PATH] = FileOf(snap[Caller].cols, snap[Caller].rows)
        /\ Fails(Caller, DeleteRefusal(Caller))
        /\ DeleteRefusal(Caller) = "Column {} not found" =>
              Answer(Caller).name = IdColumnOf(args[Caller])
        /\ DeleteRefusal(Caller) = "Index {} not found" =>
              Answer(Caller).index = IndexArg(Caller)

\* A delete on a table with columns and no rows, under a custom id_column the
\* table lacks, has failed with "Empty file".
C4_Witness ==
    /\ Returned(Caller) /\ DeleteCall(Caller)
    /\ Len(snap[Caller].cols) = 2 /\ Len(snap[Caller].rows) = 0
    /\ IdColumnOf(args[Caller]) = "nope"
    /\ Fails(Caller, "Empty file")
    /\ NoWrite(Caller)

\* ---------------------------------------------------------------------- C5
\* The positions of the loaded table that Matches leaves out, in order.
Survivors(p) == Filter(snap[p].rows, DOMAIN snap[p].rows \ Matches(p))

\* C5: a delete_item that must not fail gets to its write_file call and calls
\* it once; when that comes back it returns success and the reloaded table is
\* the loaded rows without the matching ones, the others in their order: every
\* row holding the value under a custom id_column, and under the default "id"
\* the row at that position, whatever the table's id column holds.
C5_DeleteMatches ==
    (DeleteCall(Caller) /\ DeleteRefusal(Caller) = "") =>
        /\ pc[Caller] \in {"write", "done"}
        /\ Returned(Caller) => Wrote(Caller) \/ WriteFailed(Caller)
        /\ (Returned(Caller) /\ Wrote(Caller)) =>
              /\ Says(Caller, "Item deleted successfully")
              /\ Reload.cols = snap[Caller].cols
              /\ Reload.rows = Survivors(Caller)
        /\ (Returned(Caller) /\ WriteFailed(Caller)) => Answer(Caller).prefix = "Error: "

\* A delete by custom_id of a value two of three rows hold has returned
\* success and left the one other row.
C5_Witness ==
    /\ Returned(Caller) /\ DeleteCall(Caller) /\ Wrote(Caller)
    /\ IdColumnOf(args[Caller]) = "custom_id"
    /\ Len(snap[Caller].rows) = 3
    /\ Cardinality(Matches(Caller)) = 2
    /\ Matches(Caller) = {1, 3}
    /\ Len(Reload.rows) = 1
    /\ Reload.rows[1] = snap[Caller].rows[2]

\* A delete in the default mode, on a table whose id column holds the index in
\* another row than the one at that position, has removed the row at the position.
C5_WitnessPositional ==
    /\ Returned(Caller) /\ DeleteCall(Caller) /\ Wrote(Caller)
    /\ HasKey(args[Caller], "id_column") /\ IdColumnOf(args[Caller]) = "id"
    /\ "id" \in Range(snap[Caller].cols)
    /\ IndexArg(Caller) = 1
    /\ Len(snap[Caller].rows) = 3
    /\ snap[Caller].rows[1]["id"] = 1 /\ snap[Caller].rows[2]["id"] = 2
    /\ Reload.rows = <<snap[Caller].rows[1], snap[Caller].rows[3]>>


\* ---------------------------------------------------------------------- C6
\* What a call's read_file raises says, by what the file is.
ReadErrors(content) ==
    {"Permission denied"} \cup
    (IF ~content.exists THEN {"No such file or directory"}
     ELSE IF content.cols = <<>> THEN {"No columns to parse from file"}
     ELSE {})

\* The required key the call's arguments leave out, "" when none.
MissingKey(p) ==
    CASE tool[p] = "query" /\ ~HasKey(args[p], "query") -> "query"
      [] tool[p] \in {"update_item", "delete_item"} /\ ~HasKey(args[p], "index") -> "index"
      [] tool[p] = "update_item" /\ ~HasKey(args[p], "data") -> "data"
      [] OTHER -> ""

\* C6: no call ever ends by raising to its caller.  A call that has ended has
\* returned exactly one text content, and where an error occurred it is a
\* failure carrying that error's message: absent or empty arguments, a failed
\* read, a missing key, a malformed query or one naming no column, a failed write.
C6_NeverRaises ==
    \A p \in Procs :
        /\ pc[p] # "raised"
        /\ pc[p] = "done" =>
              /\ Len(result[p]) = 1
              /\ result[p][1].type = "text"
              /\ (~Truthy(args[p]) /\ tool[p] # "list_columns") =>
                    Fails(p, "Missing arguments") /\ log[p] = <<>>
              /\ log[p] = <<"read_file raised">> =>
                    Answer(p).prefix = "Error: " /\ Answer(p).msg \in ReadErrors(fs[FILE_PATH])
              /\ (ReadCameBack(p) /\ MissingKey(p) # "") =>
                    Fails(p, "'{}'") /\ Answer(p).name = MissingKey(p)
              /\ (ReadCameBack(p) /\ tool[p] = "query" /\ MissingKey(p) = "") =>
                    LET q == args[p][1]["query"]
                    IN /\ ~q.ok => Fails(p, "invalid syntax")
                       /\ (q.ok /\ q.col \notin Range(snap[p].cols)) =>
                             Fails(p, "name {} is not defined") /\ Answer(p).name = q.col
                       /\ (q.ok /\ q.col \in Range(snap[p].cols)) => Answer(p).prefix = ""
              /\ WriteFailed(p) => Fails(p, "No space left on device")

\* A delete whose write_file raised has returned a failure with the write's
\* message, the file left truncated.
C6_Witness ==
    /\ Returned(Caller)
    /\ tool[Caller] = "delete_item"
    /\ WriteFailed(Caller)
    /\ Fails(Caller, "No space left on device")
    /\ fs[FILE_PATH] = Truncated

\* An update with no data key has returned KeyError's text as a failure.
C6_WitnessKeyError ==
    /\ Returned(Caller)
    /\ tool[Caller] = "update_item"
    /\ args[Caller] = <<[index |-> 0]>>
    /\ Fails(Caller, "'{}'") /\ Answer(Caller).name = "data"

\* ---------------------------------------------------------------------- C7
\* C7 as stated: a call of a tool other than the four returns a failure naming
\* the tool, whatever the arguments, and touches no file.
C7_AsStated ==
    (pc[Caller] = "done" /\ tool[Caller] \notin ToolNames) =>
        /\ Fails(Caller, "Unknown tool: {}")
        /\ Answer(Caller).name = tool[Caller]
        /\ log[Caller] = <<>>

\* What the code does there: the failure names the tool when the arguments are
\* a non-empty dict and says "Missing arguments" otherwise; no file is touched.
C7_UnknownToolAsCoded ==
    (pc[Caller] # "idle" /\ tool[Caller] \notin ToolNames) =>
        /\ Returned(Caller)
        /\ log[Caller] = <<>>
        /\ IF Truthy(args[Caller])
           THEN Fails(Caller, "Unknown tool: {}") /\ Answer(Caller).name = tool[Caller]
           ELSE Fails(Caller, "Missing arguments")

\* ---------------------------------------------------------------------- C8
\* C8: a call that returns "Item updated successfully" or "Item deleted
\* successfully" has called read_file, then write_file, once each and in that
\* order, and the file is the frame it wrote; a call whose write_file raised
\* returns a failure, writes no second time, and the file is what the failed
\* write left (the loaded table or a truncated file).
C8_WriteBeforeSuccess ==
    /\ (Returned(Caller)
        /\ Answer(Caller).msg \in {"Item updated successfully", "Item deleted successfully"}) =>
          /\ Wrote(Caller)
          /\ tool[Caller] \in {"update_item", "delete_item"}
          /\ fs[FILE_PATH] = FileOf(df[Caller].cols, df[Caller].rows)
    /\ (Returned(Caller) /\ Len(log[Caller]) = 2 /\ log[Caller][2] = "write_file raised") =>
          /\ Answer(Caller).prefix = "Error: "
          /\ fs[FILE_PATH] \in {FileOf(snap[Caller].cols, snap[Caller].rows), Truncated}
    /\ Len(log[Caller]) <= 2
    /\ pc[Caller] = "write" => result[Caller] = <<>> /\ NoWrite(Caller)

\* An update that changed a cell has returned success with the file rewritten.
C8_Witness ==
    /\ Returned(Caller)
    /\ tool[Caller] = "update_item"
    /\ Says(Caller, "Item updated successfully")
    /\ Wrote(Caller)
    /\ df[Caller].rows # snap[Caller].rows
    /\ fs[FILE_PATH] = FileOf(df[Caller].cols, df[Caller].rows)

\* ---------------------------------------------------------------------- C9
\* The format validate_file owes a path, by the last piece of its name.
FormatOwed(file_path) ==
    CASE Last(file_path.parts) = "xls" -> <<"xls">>
      [] Last(file_path.parts) = "XLSX" -> <<"xlsx">>
      [] Last(file_path.parts) = "csv" -> <<"csv">>
      [] OTHER -> <<>>

\* C9: once main has run, FILE_PATH is the absolute --file-path and stays so;
\* validate_file gives the lower-cased extension when the file exists and the
\* extension is xls, xlsx or csv, and None otherwise; main serves exactly when
\* it gave a format and has otherwise exited with status 1, no call accepted;
\* and no call touches another path.
C9_OnePath ==
    /\ mainpc = "start" => \A p \in Procs : pc[p] = "idle"
    /\ mainpc # "start" =>
          /\ FILE_PATH = abspath(argv)
          /\ FILE_PATH.dir[1] = "/"
          /\ validate_file(FILE_PATH, fs[FILE_PATH]) =
                (IF fs[FILE_PATH].exists THEN FormatOwed(FILE_PATH) ELSE <<>>)
          /\ (mainpc = "serving") =
                (fs[FILE_PATH].exists /\ FormatOwed(FILE_PATH) # <<>>)
          /\ mainpc = "exited" =>
                exit_status = 1 /\ \A p \in Procs : pc[p] = "idle" /\ log[p] = <<>>
          /\ \A q \in FsPaths \ {FILE_PATH} : fs[q] = Absent

\* Started on the relative path data/Report.XLSX, the server has rewritten
\* that file in a call, FILE_PATH still the absolute path main set.
C9_Witness ==
    /\ mainpc = "serving"
    /\ argv = RelPath(<<"Report", "XLSX">>)
    /\ FILE_PATH = AbsPath(<<"Report", "XLSX">>)
    /\ Returned(Caller) /\ Wrote(Caller)

\* Started on a file that exists under an extension it does not serve, main
\* has exited with status 1.
C9_WitnessExit ==
    /\ mainpc = "exited" /\ exit_status = 1
    /\ fs[FILE_PATH].exists
    /\ Last(FILE_PATH.parts) = "bak"


C10_WitnessStale ==
    /\ Returned(1) /\ Returned(2)
    /\ tool[1] = "delete_item" /\ tool[2] = "delete_item"
    /\ IndexArg(1) = 1 /\ IndexArg(2) = 0
    /\ Wrote(1) /\ Wrote(2)
    /\ snap[1] = snap[2]
    /\ Len(snap[1].rows) = 3
    /\ Reload.rows = <<snap[1].rows[1], snap[1].rows[3]>>

\* ------------------------------------------------- one call after another
\* Calls made one after another by a caller that keeps each result: a call
\* starts only when no other call is between its entry and its return.
SeqCalls == {<<"delete_item", <<[index |-> i]>> >> : i \in 0..1}

NextSeq ==
    \/ Main
    \/ \E p \in Procs : \E call \in SeqCalls :
          /\ \A q \in Procs : pc[q] \in {"idle", "done"}
          /\ CallTool(p, call[1], call[2])
    \/ \E p \in Procs : WriteDone(p)
    \/ \E p \in Procs : WriteRaises(p)
    \/ \E p \in Procs : Deliver(p)

SpecSeq == Init /\ [][NextSeq]_vars

\* --------------------------------------------------------------------- C11
\* The call of q came after the call of p, a delete_item that wrote: the file
\* only loses rows, so the call that loaded one row less is the later one.
Followed(p, q) ==
    /\ p # q
    /\ Returned(p) /\ Returned(q)
    /\ Wrote(p)
    /\ ReadCameBack(q)
    /\ Len(snap[q].rows) = Len(snap[p].rows) - 1

\* delete_item(0) by p on a table of at least three rows, then delete_item(1) by q.
DeleteZeroThenOne(p, q) ==
    /\ PositionalDelete(p) /\ IndexArg(p) = 0
    /\ Len(snap[p].rows) >= 3
    /\ Followed(p, q)
    /\ tool[q] = "delete_item"
    /\ args[q] = <<[index |-> 1]>>

\* C11: on a table of at least three rows, delete_item(0) followed by
\* delete_item(1) resolves each index against the table as that call reloaded
\* it (labels 0..n-1 again): both calls succeed unless the second one's write
\* raises, each makes one write call, and after two successes the file holds
\* len - 2 rows, the row gone in the second call being the one at position 1
\* of the reloaded table (the third row of the first table), while the row
\* that was at position 1 before the first call is still there.
C11_SequentialDeletes ==
    \A p, q \in Procs :
        DeleteZeroThenOne(p, q) =>
            LET before == snap[p].rows
                n == Len(before)
            IN /\ Says(p, "Item deleted successfully")
               /\ snap[q].index = RangeIndex(n - 1)
               /\ snap[q].cols = snap[p].cols
               /\ snap[q].rows = SubSeq(before, 2, n)
               /\ Wrote(q) \/ WriteFailed(q)
               /\ Wrote(q) =>
                     /\ Says(q, "Item deleted successfully")
                     /\ log[p] = <<"read_file", "write_file">>
                     /\ log[q] = <<"read_file", "write_file">>
                     /\ Len(Reload.rows) = n - 2
                     /\ Reload.rows = <<before[2]>> \o SubSeq(before, 4, n)
                     /\ df[q].rows = RemoveAt(snap[q].rows, 2)

\* Two successes in a row on a three-row table: one row is left, the second.
C11_Witness ==
    \E p, q \in Procs :
        /\ DeleteZeroThenOne(p, q)
        /\ Wrote(q)
        /\ Len(snap[p].rows) = 3
        /\ Reload.rows = <<snap[p].rows[2]>>
        /\ snap[p].rows[2] # snap[p].rows[3]

\* --------------------------------------------------------------------- C12
\* The call is of a tool that only reads.
ReadOnlyCall(p) == tool[p] \in {"query", "list_columns"} /\ pc[p] # "idle"

\* The query expression of the call, and the rows of a table for which it is true.
QueryArg(p) == args[p][1]["query"]

Holds(row, q) ==
    \/ q.op = "==" /\ row[q.col] = q.val
    \/ q.op = ">" /\ row[q.col] > q.val

RowsWhere(rows, q) == SelectSeq(rows, LAMBDA row : Holds(row, q))

\* A query call whose expression parses and names a column of the file.
WellFormedQuery(p) ==
    /\ tool[p] = "query"
    /\ ReadCameBack(p)
    /\ HasKey(args[p], "query")
    /\ QueryArg(p).ok
    /\ QueryArg(p).col \in Range(fs[FILE_PATH].cols)

\* C12: query and list_columns never call write_file: whatever the arguments
\* and the outcome, the step that runs one leaves every file as it was and
\* ends in a return with no write in its log; list_columns returns the file's
\* column names in file order, and a well-formed query returns exactly the
\* rows of the file that satisfy the expression, in the file's order.
C12_ReadOnlyTools ==
    [][ReadOnlyCall(Caller)' =>
           /\ fs' = fs
           /\ pc'[Caller] = "done"
           /\ Returned(Caller)'
           /\ log'[Caller] \in {<<>>, <<"read_file">>, <<"read_file raised">>}
           /\ (tool'[Caller] = "list_columns" /\ ReadCameBack(Caller)') =>
                 /\ Says(Caller, "{}")'
                 /\ Answer(Caller)'.cols = fs[FILE_PATH].cols
           /\ WellFormedQuery(Caller)' =>
                 /\ Says(Caller, "{}")'
                 /\ Answer(Caller)'.rows = RowsWhere(fs[FILE_PATH].rows, QueryArg(Caller)')
      ]_vars

\* A query with > that keeps some rows of the file and leaves others out.
C12_Witness ==
    /\ Returned(Caller)
    /\ WellFormedQuery(Caller)
    /\ QueryArg(Caller).op = ">"
    /\ Says(Caller, "{}")
    /\ Len(Answer(Caller).rows) >= 1
    /\ Len(Answer(Caller).rows) < Len(fs[FILE_PATH].rows)
    /\ fs[FILE_PATH] = FileOf(snap[Caller].cols, snap[Caller].rows)

\* list_columns has returned the columns of a file that has them.
C12_WitnessColumns ==
    /\ Returned(Caller)
    /\ tool[Caller] = "list_columns"
    /\ Says(Caller, "{}")
    /\ Answer(Caller).cols = <<"custom_id", "name">>
    /\ log[Caller] = <<"read_file">>

\* --------------------------------------------------------------------- C13
\* The backing file's ordered column list and its row count.
FileColumns == fs[FILE_PATH].cols

FileRows == Len(fs[FILE_PATH].rows)

\* The step is the return of a write_file call of this tool / a write_file
\* call that raised / the run of a call of update_item or delete_item.
WriteStep(name) ==
    /\ pc[Caller] = "write"
    /\ tool[Caller] = name
    /\ log'[Caller] = Append(log[Caller], "write_file")

FailedWriteStep ==
    /\ pc[Caller] = "write"
    /\ log'[Caller] = Append(log[Caller], "write_file raised")

MutatingCallStep ==
    /\ pc[Caller] = "idle"
    /\ pc'[Caller] # "idle"
    /\ tool'[Caller] \in {"update_item", "delete_item"}

\* What C13 says of row counts and of the empty table, in one step of a
\* serving server.
RowCountSteps ==
    /\ FileRows' <= FileRows
    /\ WriteStep("update_item") => FileRows' = FileRows
    /\ WriteStep("delete_item") => FileRows' < FileRows
    /\ FileRows = 0 =>
          /\ FileRows' = 0
          /\ pc[Caller] # "write"
          /\ MutatingCallStep =>
                /\ pc'[Caller] = "done"
                /\ IsFailure(result'[Caller][1])
                /\ "write_file" \notin Range(log'[Caller])

\* C13 as stated: after any sequence of tool calls, successful or failed, the
\* backing file's ordered column list is the one it had at startup, and the
\* row count never increases (update_item keeps it, a successful delete_item
\* lowers it, an empty table stays empty and refuses update_item and
\* delete_item without writing).
C13_AsStated ==
    [][mainpc = "serving" => (FileColumns' = FileColumns /\ RowCountSteps)]_vars

\* C13: in every step of a serving server the backing file's ordered column
\* list stays as it is, except in a write_file call that raises, which may
\* leave a file with no columns and no rows; the row count never increases:
\* update_item keeps it, a successful delete_item strictly lowers it, and once
\* there are zero rows there are zero rows ever after and every update_item
\* and delete_item call fails without a write_file call.
C13_FileShape ==
    [][mainpc = "serving" =>
           /\ FileColumns' # FileColumns =>
                 (FailedWriteStep /\ fs'[FILE_PATH] = Truncated)
           /\ ~FailedWriteStep => FileColumns' = FileColumns
           /\ RowCountSteps
      ]_vars

\* An update_item call on a table whose rows are all gone has failed, with
\* no write, and the columns are still there.
C13_Witness ==
    /\ Returned(Caller)
    /\ tool[Caller] = "update_item"
    /\ HasKey(args[Caller], "index") /\ HasKey(args[Caller], "data")
    /\ ReadCameBack(Caller)
    /\ FileRows = 0
    /\ FileColumns = <<"id", "name">>
    /\ Fails(Caller, "Index {} not found")
    /\ NoWrite(Caller)

\* A write_file call of delete_item has raised and left a file without columns.
C13_WitnessTruncated ==
    /\ Returned(Caller)
    /\ tool[Caller] = "delete_item"
    /\ WriteFailed(Caller)
    /\ fs[FILE_PATH] = Truncated
    /\ Len(snap[Caller].cols) = 2

====
